---- MODULE Spec2Model ----
(***************************************************************************)
(* Model of the Compound wallet risk scoring pipeline                      *)
(* (src/compound_risk_scorer.py, src/app.py).                              *)
(*                                                                         *)
(* Representation.                                                         *)
(*  - A Python float that the code obtains by a division is kept as the    *)
(*    exact fraction [num, den]; a comparison with a decimal literal       *)
(*    (x > 0.9) is cross-multiplied.  den = 0 stands for the division      *)
(*    raising ZeroDivisionError.                                           *)
(*  - Amounts (positive reals in the code) are integers counted in         *)
(*    1/Unit, so the literal 1 of max(x, 1) is Unit.                       *)
(*  - Instants are integers counted in ticks, TicksPerDay ticks to a day;  *)
(*    timedelta.days is the floor division by TicksPerDay.                 *)
(*  - A string the code indexes (a wallet identifier, a transaction hash)  *)
(*    is a sequence of one-character strings.                              *)
(***************************************************************************)
EXTENDS Integers, Sequences, FiniteSets, TLC

VARIABLES
    \* app.main / process_wallet_list
    pc,          \* position of app.main
    fileExists,  \* os.path.exists(input_file)
    hasColumn,   \* the CSV has a wallet_id column
    wallets,     \* df['wallet_id']
    idx,         \* 1-based position of the loop of process_wallet_list
    results,     \* the list `results`
    fetched,     \* the wallet_data of the last pass, with the instant it is
                 \* anchored at
    failed,      \* history: for each pass, whether it ended in the except branch
    rng,         \* the state of numpy's process-wide generator np.random
    clock,       \* the wall clock read by datetime.now()
    written,     \* which output files have been written
    detailed,    \* content of output/wallet_scores_detailed.csv
    simple,      \* content of output/wallet_scores.csv
    exitCode,    \* what app.main returns
    escaped,     \* history: where an exception left process_wallet_list
    \* a single call of calculate_risk_score / generate_risk_explanation
    spc, features, score, explanation,
    \* a single call of extract_features
    epc, wallet_data, extracted,
    \* simulations of several wallets run as workers of one process
    workerPc,     \* the statement of _simulate_compound_data each worker is at
    workerWallet, \* the wallet_address each worker was called with
    workerData    \* the lists and the dict each worker has built so far

vars == <<pc, fileExists, hasColumn, wallets, idx, results, fetched, failed,
          rng, clock, written, detailed, simple, exitCode, escaped,
          spc, features, score, explanation, epc, wallet_data, extracted,
          workerPc, workerWallet, workerData>>

mainVars == <<pc, fileExists, hasColumn, wallets, idx, results,
              fetched, failed, rng, clock, written, detailed, simple, exitCode,
              escaped>>
scoreVars == <<spc, features, score, explanation>>
extractVars == <<epc, wallet_data, extracted>>
workerVars == <<workerPc, workerWallet, workerData>>

-----------------------------------------------------------------------------
(* Bounds and resolutions of the model.                                    *)

\* amounts are counted in 1/Unit
Unit == 10
\* instants are counted in ticks
TicksPerDay == 4
\* largest liquidation_count handed to a single scorer call
MaxLiqCount == 3
\* ticks that may pass between two readings of the clock while one wallet is
\* processed (less than a day)
MaxDrift == 1
\* longest transaction and liquidation lists handed to a single extractor call
ExtractMaxTx == 2
ExtractMaxLiq == 1
\* cap of the simulated Poisson(15) transaction count
MaxTx == 3
\* cap of the simulated Poisson(1) + 1 liquidation count
MaxLiq == 2
\* longest input list
MaxWallets == 3
\* last instant at which a wallet is processed
MaxClock == 2

-----------------------------------------------------------------------------
(* Arithmetic helpers.                                                     *)

Max(a, b) == IF a >= b THEN a ELSE b
Min(a, b) == IF a <= b THEN a ELSE b

\* Python's a / b on numbers: the exact fraction; den = 0 is ZeroDivisionError
Frac(a, b) == [num |-> a, den |-> b]

\* x > p/q, x < p/q, for a fraction x with den > 0 and q > 0
Gt(x, p, q) == x.num * q > p * x.den
Lt(x, p, q) == x.num * q < p * x.den

-----------------------------------------------------------------------------
(* CompoundRiskScorer.__init__: the scoring weights.                       *)

risk_weights ==
    [liquidation_penalty   |-> 200,
     health_factor_penalty |-> 150,
     volatility_penalty    |-> 100,
     frequency_bonus       |-> 50,
     repayment_bonus       |-> 100,
     diversification_bonus |-> 75]

-----------------------------------------------------------------------------
(* calculate_risk_score: each block of the function takes the running      *)
(* base_score b and returns it after the block.                            *)

\* the liquidation penalty with its sign flipped
LiquidationBlockAdded(b, f) ==
    b + f.liquidation_count * risk_weights.liquidation_penalty

LiquidationBlock(b, f) ==
    b - f.liquidation_count * risk_weights.liquidation_penalty

RecentLiquidationBlock(b, f) ==
    IF f.days_since_last_liquidation < 30 THEN b - 100
    ELSE IF f.days_since_last_liquidation < 90 THEN b - 50
    ELSE b

RepaymentBlock(b, f) ==
    IF Gt(f.repayment_ratio, 9, 10) THEN b + risk_weights.repayment_bonus
    ELSE IF Lt(f.repayment_ratio, 1, 2) THEN b - risk_weights.repayment_bonus
    ELSE b

UtilizationBlock(b, f) ==
    IF Gt(f.current_utilization, 8, 10) THEN b - 150
    ELSE IF Gt(f.current_utilization, 6, 10) THEN b - 75
    ELSE b

FrequencyBlock(b, f) ==
    IF Gt(f.activity_frequency, 2, 1) THEN b + risk_weights.frequency_bonus
    ELSE IF Lt(f.activity_frequency, 1, 2) THEN b - 50
    ELSE b

DiversificationBlock(b, f) ==
    IF f.asset_diversity >= 3 THEN b + risk_weights.diversification_bonus
    ELSE IF f.asset_diversity = 1 THEN b - 25
    ELSE b

VolatileBlock(b, f) ==
    IF Gt(f.volatile_asset_ratio, 7, 10)
    THEN b - risk_weights.volatility_penalty
    ELSE b

AccountAgeBlock(b, f) ==
    IF f.account_age_days > 365 THEN b + 50
    ELSE IF f.account_age_days < 30 THEN b - 50
    ELSE b

RecentActivityBlock(b, f) ==
    IF f.days_since_last_activity < 7 THEN b + 25
    ELSE IF f.days_since_last_activity > 90 THEN b - 75
    ELSE b

\* the clamp without its lower bound
ClampNoFloor(b) == Min(1000, b)

\* final_score = max(0, min(1000, base_score))
Clamp(b) == Max(0, Min(1000, b))

\* base_score after the nine blocks, before the clamp
UnclampedScore(f) ==
    LET b0 == 500
        b1 == LiquidationBlock(b0, f)
        b2 == RecentLiquidationBlock(b1, f)
        b3 == RepaymentBlock(b2, f)
        b4 == UtilizationBlock(b3, f)
        b5 == FrequencyBlock(b4, f)
        b6 == DiversificationBlock(b5, f)
        b7 == VolatileBlock(b6, f)
        b8 == AccountAgeBlock(b7, f)
        b9 == RecentActivityBlock(b8, f)
    IN  b9

\* the score clamped after the liquidation blocks as well
ScoreClampEarly(f) ==
    LET b1 == Clamp(LiquidationBlock(500, f))
        b2 == Clamp(RecentLiquidationBlock(b1, f))
        b3 == RepaymentBlock(b2, f)
        b4 == UtilizationBlock(b3, f)
        b5 == FrequencyBlock(b4, f)
        b6 == DiversificationBlock(b5, f)
        b7 == VolatileBlock(b6, f)
        b8 == AccountAgeBlock(b7, f)
        b9 == RecentActivityBlock(b8, f)
    IN  Clamp(b9)

\* the score without the repayment block
ScoreRepaymentSkipped(f) ==
    Clamp(UnclampedScore(f) - RepaymentBlock(0, f))

calculate_risk_score(f) == Clamp(UnclampedScore(f))

-----------------------------------------------------------------------------
(* generate_risk_explanation.                                              *)

RECURSIVE Join(_, _)
\* sep.join(parts)
Join(sep, parts) ==
    IF parts = <<>> THEN ""
    ELSE IF Len(parts) = 1 THEN parts[1]
    ELSE parts[1] \o sep \o Join(sep, Tail(parts))

LiquidationClause(f) ==
    IF f.liquidation_count > 0
    THEN <<"Liquidated " \o ToString(f.liquidation_count) \o " time(s)">>
    ELSE <<>>

RepaymentClause(f) ==
    IF Gt(f.repayment_ratio, 9, 10) THEN <<"Excellent repayment history">>
    ELSE IF Lt(f.repayment_ratio, 1, 2) THEN <<"Poor repayment history">>
    ELSE <<>>

\* the clause with the cutoff of the smaller utilization penalty
UtilizationClauseMedium(f) ==
    IF Gt(f.current_utilization, 6, 10) THEN <<"High current utilization">>
    ELSE <<>>

UtilizationClause(f) ==
    IF Gt(f.current_utilization, 8, 10) THEN <<"High current utilization">>
    ELSE <<>>

FrequencyClause(f) ==
    IF Gt(f.activity_frequency, 2, 1) THEN <<"Active user">>
    ELSE IF Lt(f.activity_frequency, 1, 2) THEN <<"Inactive user">>
    ELSE <<>>

DiversificationClause(f) ==
    IF f.asset_diversity >= 3 THEN <<"Well-diversified portfolio">>
    ELSE <<>>

\* the list `explanations`
Explanations(f) ==
    LiquidationClause(f) \o RepaymentClause(f) \o UtilizationClause(f)
        \o FrequencyClause(f) \o DiversificationClause(f)

generate_risk_explanation(f, s) ==
    IF Explanations(f) # <<>>
    THEN Join("; ", Explanations(f))
    ELSE "Standard risk profile"

-----------------------------------------------------------------------------
(* Idle values of the variables a specification does not use.              *)

MainIdle ==
    /\ pc = "idle" /\ fileExists = FALSE /\ hasColumn = FALSE
    /\ wallets = <<>> /\ idx = 0 /\ results = <<>>
    /\ fetched = <<>> /\ failed = <<>> /\ rng = 0 /\ clock = 0 /\ written = {}
    /\ detailed = <<>> /\ simple = <<>> /\ exitCode = 0 /\ escaped = ""

ScoreIdle ==
    /\ spc = "idle" /\ features = <<>> /\ score = 0 /\ explanation = ""

ExtractIdle ==
    /\ epc = "idle" /\ wallet_data = <<>> /\ extracted = <<>>

WorkersIdle ==
    /\ workerPc = <<>> /\ workerWallet = <<>> /\ workerData = <<>>

-----------------------------------------------------------------------------
(* extract_features.                                                       *)

RECURSIVE SeqSum(_)
\* sum([...]) of a list of numbers
SeqSum(xs) == IF xs = <<>> THEN 0 ELSE Head(xs) + SeqSum(Tail(xs))

RECURSIVE FnSum(_, _)
\* sum of fn[k] over the keys k in S
FnSum(fn, S) ==
    IF S = {} THEN 0
    ELSE LET k == CHOOSE x \in S : TRUE
         IN  fn[k] + FnSum(fn, S \ {k})

SetMin(S) == CHOOSE x \in S : \A y \in S : x <= y
SetMax(S) == CHOOSE x \in S : \A y \in S : x >= y

\* timedelta.days of a difference of two instants
Days(delta) == delta \div TicksPerDay

\* the denominators without their floor
Unfloored(x, one) == x

\* max(x, 1), the floor of every denominator; `one` is 1 in the unit of x
Floored(x, one) == Max(x, one)

volatile_assets == {"ETH", "WBTC"}

\* The dict `features`; nows are the readings of datetime.now() at lines
\* 138, 139 and 185.
Features(wd, nows) ==
    LET transactions == wd.transactions
        liquidations == wd.liquidations
        positions    == wd.current_positions
        n            == Len(transactions)
        stamps       == {transactions[i].timestamp : i \in 1..n}
        age          == IF n > 0 THEN Days(nows[1] - SetMin(stamps)) ELSE 0
        Count(ty)    == Cardinality({i \in 1..n : transactions[i].type = ty})
        Volume(ty)   == SeqSum([i \in 1..n |->
                            IF transactions[i].type = ty
                            THEN transactions[i].amount ELSE 0])
        volatile_tx_count ==
            Cardinality({i \in 1..n : transactions[i].asset \in volatile_assets})
        total_supplied ==
            FnSum([k \in DOMAIN positions |-> positions[k].supplied],
                  DOMAIN positions)
        total_borrowed ==
            FnSum([k \in DOMAIN positions |-> positions[k].borrowed],
                  DOMAIN positions)
        liquidated ==
            [i \in 1..Len(liquidations) |-> liquidations[i].liquidated_amount]
    IN  [total_transactions |-> n,
         liquidation_count  |-> Len(liquidations),
         account_age_days   |-> age,
         days_since_last_activity |->
            IF n > 0 THEN Days(nows[2] - SetMax(stamps)) ELSE 999,
         activity_frequency |->
            IF n > 0 THEN Frac(n * 30, Floored(age, 1)) ELSE Frac(0, 1),
         supply_ratio |-> Frac(Count("supply"), Floored(n, 1)),
         borrow_ratio |-> Frac(Count("borrow"), Floored(n, 1)),
         repay_ratio  |-> Frac(Count("repay"), Floored(n, 1)),
         total_supply_volume |-> Volume("supply"),
         total_borrow_volume |-> Volume("borrow"),
         total_repay_volume  |-> Volume("repay"),
         repayment_ratio |->
            Frac(Volume("repay"), Floored(Volume("borrow"), Unit)),
         asset_diversity |->
            Cardinality({transactions[i].asset : i \in 1..n}),
         volatile_asset_ratio |-> Frac(volatile_tx_count, Floored(n, 1)),
         active_positions |->
            Cardinality({k \in DOMAIN positions :
                positions[k].supplied > 0 \/ positions[k].borrowed > 0}),
         current_utilization |->
            Frac(total_borrowed, Floored(total_supplied, Unit)),
         avg_liquidation_amount |->
            IF liquidations # <<>>
            THEN Frac(SeqSum(liquidated), Len(liquidations))
            ELSE Frac(0, 1),
         total_liquidated_value |->
            IF liquidations # <<>> THEN SeqSum(liquidated) ELSE 0,
         days_since_last_liquidation |->
            IF liquidations # <<>>
            THEN SetMin({Days(nows[3] - liquidations[i].timestamp) :
                            i \in 1..Len(liquidations)})
            ELSE 999]

\* the divisions of extract_features
Ratios(f) ==
    {f.activity_frequency, f.supply_ratio, f.borrow_ratio, f.repay_ratio,
     f.repayment_ratio, f.volatile_asset_ratio, f.current_utilization,
     f.avg_liquidation_amount}

\* extract_features(wallet_data): raised when one of its divisions divides
\* by zero, the features otherwise
extract_features(wd, nows) ==
    LET f == Features(wd, nows)
    IN  [raised   |-> \E r \in Ratios(f) : r.den = 0,
         features |-> f]

\* the dict _simulate_compound_data returns
WalletData(wallet_address, transactions, liquidations, positions) ==
    LET stamps == {transactions[i].timestamp : i \in 1..Len(transactions)}
    IN  [wallet_address    |-> wallet_address,
         transactions      |-> transactions,
         liquidations      |-> liquidations,
         current_positions |-> positions,
         first_interaction |->
            IF transactions # <<>> THEN <<SetMin(stamps)>> ELSE <<>>,
         last_interaction  |->
            IF transactions # <<>> THEN <<SetMax(stamps)>> ELSE <<>>]

\* datetime.now() - timedelta(days = d), now being the instant t
DaysBefore(t, d) == t - d * TicksPerDay

\* readings of the clock from the instant t on, in the order they are taken
Readings(t) ==
    {<<t + a, t + b, t + c>> :
        a \in 0..MaxDrift, b \in 0..MaxDrift, c \in 0..MaxDrift}
    \ {r \in {<<t + a, t + b, t + c>> :
                a \in 0..MaxDrift, b \in 0..MaxDrift, c \in 0..MaxDrift} :
            r[1] > r[2] \/ r[2] > r[3]}

-----------------------------------------------------------------------------
(* numpy's generator.  The Mersenne Twister is abstracted to a linear      *)
(* congruential generator on 15 bits: what the model keeps is that the     *)
(* generator is one process-wide state, that seeding overwrites it, and    *)
(* that every variate is a function of the state it is drawn in.  Every    *)
(* call of a distribution consumes one step.                               *)

\* the state np.random.seed(seed) leaves
RngSeeded(seed) == seed % 32768

\* the state after one draw
RngNext(s) == (25173 * s + 13849) % 32768

RECURSIVE RngJump(_)
\* k draws as one affine map <<m, c>>: the state s becomes (m * s + c) % 2^15
RngJump(k) ==
    IF k = 0 THEN <<1, 0>>
    ELSE IF k % 2 = 0
    THEN LET h == RngJump(k \div 2)
         IN  <<(h[1] * h[1]) % 32768, (h[1] * h[2] + h[2]) % 32768>>
    ELSE LET j == RngJump(k - 1)
         IN  <<(25173 * j[1]) % 32768, (25173 * j[2] + 13849) % 32768>>

\* the jumps a simulation takes, computed once
RngJumps == [k \in 0..(68 * (MaxTx + 1)) |-> RngJump(k)]

\* the state after k draws
RngAdvance(s, k) == (RngJumps[k][1] * s + RngJumps[k][2]) % 32768

\* the uniform variate of a state, in 1/256
Uniform(s) == s \div 128

\* np.random.random() < pct / 100
Below(s, pct) == Uniform(s) * 100 < pct * 256

\* np.random.randint(0, n)
RandInt(s, n) == (Uniform(s) * n) \div 256

\* np.random.choice(xs, p = ...): the 1-based position the variate selects,
\* cdf being the cumulated p in percent (cdf.searchsorted(u, side = 'right'))
Choice(s, cdf) ==
    1 + Cardinality({k \in DOMAIN cdf : cdf[k] * 256 <= Uniform(s) * 100})

\* np.random.poisson(lam), capped at cap
Poisson(s, cap) == RandInt(s, cap + 1)

\* np.random.lognormal(mean, sigma): a positive amount, in 1/Unit
LogNormalTable == <<4, 25, 100, 400, 2500>>
LogNormal(s) == LogNormalTable[1 + RandInt(s, Len(LogNormalTable))]

-----------------------------------------------------------------------------
(* _simulate_compound_data.                                                *)

HexDigits ==
    <<"0", "1", "2", "3", "4", "5", "6", "7",
      "8", "9", "a", "b", "c", "d", "e", "f">>

IsHexDigit(c) == \E k \in DOMAIN HexDigits : HexDigits[k] = c
HexValue(c) == (CHOOSE k \in DOMAIN HexDigits : HexDigits[k] = c) - 1

\* wallet_address[-8:]
LastEight(w) == IF Len(w) <= 8 THEN w ELSE SubSeq(w, Len(w) - 7, Len(w))

RECURSIVE HexFold(_, _)
HexFold(digits, acc) ==
    IF digits = <<>> THEN acc
    ELSE HexFold(Tail(digits), 16 * acc + HexValue(Head(digits)))

\* int(text, 16) on the characters of the model (hexadecimal digits, "x" and
\* the non-digit "g"): an optional 0x prefix, then at least one digit and
\* digits only; raised is Python's ValueError
ParseHex(text) ==
    LET prefixed == Len(text) >= 2 /\ text[1] = "0" /\ text[2] = "x"
        digits   == IF prefixed THEN SubSeq(text, 3, Len(text)) ELSE text
        valid    == /\ digits # <<>>
                    /\ \A k \in DOMAIN digits : IsHexDigit(digits[k])
    IN  [raised |-> ~valid,
         value  |-> IF valid THEN HexFold(digits, 0) ELSE 0]

\* int(...) % 2**32: at most eight hexadecimal digits are below 2**32
Mod32(v) == v

\* the seeding line removed: the generator goes on from the state it had
SeedSkipped(s, seed) == s

\* np.random.seed(seed): the process-wide state s is overwritten
SeedGlobal(s, seed) == RngSeeded(seed)

tx_types == <<"supply", "borrow", "repay", "withdraw">>
tx_assets == <<"ETH", "DAI", "USDC", "USDT", "WBTC">>
liquidation_assets == <<"ETH", "WBTC", "DAI">>

\* np.random.choice(list('0123456789abcdef'), k), drawn from state s on
HashChars(s, k) ==
    [i \in 1..k |-> HexDigits[1 + RandInt(RngAdvance(s, i), 16)]]

\* a transaction loop whose offsets reach 180 days
TransactionOffsetTo180(s, current_time) ==
    LET s1 == RngNext(s)
        s2 == RngNext(s1)
        s3 == RngNext(s2)
        s4 == RngNext(s3)
    IN  [timestamp |-> DaysBefore(current_time, RandInt(s1, 181)),
         type      |-> tx_types[Choice(s2, <<30, 55, 80, 100>>)],
         asset     |-> tx_assets[Choice(s3, <<30, 55, 80, 95, 100>>)],
         amount    |-> LogNormal(s4),
         tx_hash   |-> <<"0", "x">> \o HashChars(s4, 64)]

\* one pass of the transaction loop, entered in state s
Transaction(s, current_time) ==
    LET s1 == RngNext(s)
        s2 == RngNext(s1)
        s3 == RngNext(s2)
        s4 == RngNext(s3)
    IN  [timestamp |-> DaysBefore(current_time, RandInt(s1, 180)),
         type      |-> tx_types[Choice(s2, <<30, 55, 80, 100>>)],
         asset     |-> tx_assets[Choice(s3, <<30, 55, 80, 95, 100>>)],
         amount    |-> LogNormal(s4),
         tx_hash   |-> <<"0", "x">> \o HashChars(s4, 64)]

\* one pass of the liquidation loop, entered in state s
Liquidation(s, current_time) ==
    LET s1 == RngNext(s)
        s2 == RngNext(s1)
        s3 == RngNext(s2)
        s4 == RngNext(s3)
    IN  [timestamp         |-> DaysBefore(current_time, RandInt(s1, 180)),
         liquidated_amount |-> LogNormal(s2),
         collateral_seized |-> LogNormal(s3),
         asset             |-> liquidation_assets[1 + RandInt(s4, 3)]]

RECURSIVE Positions(_, _)
\* the loop over the assets from the k-th on, entered in state s: the
\* positions it adds and the state it leaves
Positions(s, k) ==
    IF k > Len(tx_assets) THEN [positions |-> <<>>, rng |-> s]
    ELSE
        LET held == RngNext(s)
        IN  IF ~Below(held, 40) THEN Positions(held, k + 1)
            ELSE
                LET sup  == RngNext(held)
                    s1   == IF Below(sup, 70) THEN RngNext(sup) ELSE sup
                    bor  == RngNext(s1)
                    s2   == IF Below(bor, 50) THEN RngNext(bor) ELSE bor
                    rest == Positions(s2, k + 1)
                    pos  == [supplied |-> IF Below(sup, 70)
                                          THEN LogNormal(s1) ELSE 0,
                             borrowed |-> IF Below(bor, 50)
                                          THEN LogNormal(s2) ELSE 0]
                IN  [positions |-> (tx_assets[k] :> pos) @@ rest.positions,
                     rng       |-> rest.rng]

\* _simulate_compound_data(wallet_address), called with the process-wide
\* generator in state s and the clock reading current_time: whether it
\* raised, the dict it returns and the state it leaves the generator in
simulate_compound_data(s, wallet_address, current_time) ==
    LET parsed == ParseHex(LastEight(wallet_address))
        seeded == SeedGlobal(s, Mod32(parsed.value))
        count  == RngNext(seeded)
        num_transactions == Poisson(count, MaxTx)
        transactions ==
            [i \in 1..num_transactions |->
                Transaction(RngAdvance(count, 68 * (i - 1)), current_time)]
        afterTx == RngAdvance(count, 68 * num_transactions)
        liq     == RngNext(afterTx)
        liqCount == RngNext(liq)
        num_liquidations ==
            IF Below(liq, 15) THEN Poisson(liqCount, MaxLiq - 1) + 1 ELSE 0
        liquidations ==
            [i \in 1..num_liquidations |->
                Liquidation(RngAdvance(liqCount, 4 * (i - 1)), current_time)]
        afterLiq == IF Below(liq, 15)
                    THEN RngAdvance(liqCount, 4 * num_liquidations)
                    ELSE liq
        held == Positions(afterLiq, 1)
    IN  IF parsed.raised
        THEN [raised |-> TRUE, data |-> <<>>, rng |-> s]
        ELSE [raised |-> FALSE,
              data   |-> WalletData(wallet_address, transactions,
                                    liquidations, held.positions),
              rng    |-> held.rng]

-----------------------------------------------------------------------------
(* SpecExtract: one call of extract_features on an activity record drawn   *)
(* from small lists of transactions, liquidations and positions, the       *)
(* empty ones included.  The records are anchored at instant 0.            *)

SampleTransactions ==
    {[timestamp |-> DaysBefore(0, t[1]), type |-> ty, asset |-> t[2],
      amount |-> t[3], tx_hash |-> <<>>] :
        ty \in {"supply", "borrow", "repay", "withdraw"},
        t \in {<<0, "ETH", 5>>, <<179, "DAI", 30>>}}

SampleLiquidations ==
    {[timestamp |-> DaysBefore(0, d), liquidated_amount |-> 40,
      collateral_seized |-> 50, asset |-> "ETH"] : d \in {10, 100}}

SamplePositions ==
    UNION {[A -> [supplied : {0, 30}, borrowed : {0, 30}]] :
              A \in SUBSET {"ETH", "DAI"}}

SeqsUpTo(S, n) == UNION {[1..k -> S] : k \in 0..n}

ExtractInit ==
    /\ epc = "input"
    /\ \E txs \in SeqsUpTo(SampleTransactions, ExtractMaxTx),
          liqs \in SeqsUpTo(SampleLiquidations, ExtractMaxLiq),
          pos \in SamplePositions :
            wallet_data = WalletData(<<>>, txs, liqs, pos)
    /\ extracted = <<>>
    /\ MainIdle
    /\ ScoreIdle
    /\ WorkersIdle

CallExtract ==
    /\ epc = "input"
    /\ \E nows \in Readings(0) :
          extracted' = extract_features(wallet_data, nows)
    /\ epc' = "extracted"
    /\ UNCHANGED wallet_data
    /\ UNCHANGED mainVars
    /\ UNCHANGED scoreVars
    /\ UNCHANGED workerVars

NextExtract == CallExtract

SpecExtract == ExtractInit /\ [][NextExtract]_vars

-----------------------------------------------------------------------------
(* SpecScore: one call of calculate_risk_score followed by one call of     *)
(* generate_risk_explanation on a feature set drawn from a grid that       *)
(* holds, for every rule, a value in each band and the cutoffs themselves. *)

RepaymentValues == {Frac(0, 1), Frac(1, 2), Frac(9, 10), Frac(91, 100)}
UtilizationValues == {Frac(0, 1), Frac(3, 5), Frac(4, 5), Frac(9, 10)}
FrequencyValues == {Frac(0, 1), Frac(1, 2), Frac(2, 1), Frac(3, 1)}
VolatileValues == {Frac(0, 1), Frac(7, 10), Frac(4, 5)}

FeatureSets ==
    [liquidation_count           : 0..MaxLiqCount,
     days_since_last_liquidation : {10, 29, 30, 89, 90, 999},
     repayment_ratio             : RepaymentValues,
     current_utilization         : UtilizationValues,
     activity_frequency          : FrequencyValues,
     asset_diversity             : {0, 1, 2, 3},
     volatile_asset_ratio        : VolatileValues,
     account_age_days            : {0, 29, 30, 365, 366},
     days_since_last_activity    : {6, 7, 90, 91, 999}]

ScoreInit ==
    /\ spc = "input"
    /\ features \in FeatureSets
    /\ score = 0
    /\ explanation = ""
    /\ MainIdle
    /\ ExtractIdle
    /\ WorkersIdle

CallScore ==
    /\ spc = "input"
    /\ score' = calculate_risk_score(features)
    /\ spc' = "scored"
    /\ UNCHANGED <<features, explanation>>
    /\ UNCHANGED mainVars
    /\ UNCHANGED extractVars
    /\ UNCHANGED workerVars

CallExplain ==
    /\ spc = "scored"
    /\ explanation' = generate_risk_explanation(features, score)
    /\ spc' = "explained"
    /\ UNCHANGED <<features, score>>
    /\ UNCHANGED mainVars
    /\ UNCHANGED extractVars
    /\ UNCHANGED workerVars

NextScore == CallScore \/ CallExplain

SpecScore == ScoreInit /\ [][NextScore]_vars

-----------------------------------------------------------------------------
(* process_wallet_list and app.main.                                       *)

\* round(x, digits) of a fraction x >= 0, as an integer in 1/scale
\* (scale = 10 ** digits), ties to even
Round(x, scale) ==
    LET n == x.num * scale
        q == n \div x.den
        r == n % x.den
    IN  IF 2 * r < x.den THEN q
        ELSE IF 2 * r > x.den THEN q + 1
        ELSE IF q % 2 = 0 THEN q ELSE q + 1

\* the row of a wallet that went through; the two ratios are in 1/1000 and
\* the frequency in 1/100
SuccessRow(wallet, f, s, e) ==
    [wallet_id           |-> wallet,
     score               |-> s,
     explanation         |-> e,
     liquidation_count   |-> f.liquidation_count,
     repayment_ratio     |-> Round(f.repayment_ratio, 1000),
     current_utilization |-> Round(f.current_utilization, 1000),
     activity_frequency  |-> Round(f.activity_frequency, 100),
     asset_diversity     |-> f.asset_diversity]

\* a fallback row that is not the neutral one
ErrorRowZeroScore(wallet) ==
    [wallet_id           |-> wallet,
     score               |-> 0,
     explanation         |-> "Error in processing",
     liquidation_count   |-> 0,
     repayment_ratio     |-> 0,
     current_utilization |-> 0,
     activity_frequency  |-> 0,
     asset_diversity     |-> 0]

\* the row the except branch appends
ErrorRow(wallet) ==
    [wallet_id           |-> wallet,
     score               |-> 500,
     explanation         |-> "Error in processing",
     liquidation_count   |-> 0,
     repayment_ratio     |-> 0,
     current_utilization |-> 0,
     activity_frequency  |-> 0,
     asset_diversity     |-> 0]

\* The body of the loop for one wallet once the simulation has returned
\* sim; nows are the readings of the clock taken by extract_features.  An
\* exception in any stage lands in the except branch.
RestOfBody(wallet, sim, nows) ==
    LET ext == extract_features(sim.data, nows)
        sc  == calculate_risk_score(ext.features)
        ex  == generate_risk_explanation(ext.features, sc)
    IN  IF sim.raised
        THEN [raised |-> TRUE, row |-> ErrorRow(wallet),
              data |-> <<>>, rng |-> sim.rng]
        ELSE IF ext.raised
        THEN [raised |-> TRUE, row |-> ErrorRow(wallet),
              data |-> sim.data, rng |-> sim.rng]
        ELSE [raised |-> FALSE,
              row |-> SuccessRow(wallet, ext.features, sc, ex),
              data |-> sim.data, rng |-> sim.rng]

\* The body of the loop for one wallet, entered with the generator in state
\* s and the clock reading current_time.
ProcessOne(s, wallet, current_time, nows) ==
    RestOfBody(wallet, simulate_compound_data(s, wallet, current_time), nows)

\* a projection that drops the fallback rows
SimpleResultsSuccessOnly(results_df) ==
    LET kept == SelectSeq(results_df,
                    LAMBDA row : row.explanation # "Error in processing")
    IN  [i \in 1..Len(kept) |->
            [wallet_id |-> kept[i].wallet_id, score |-> kept[i].score]]

\* results_df[['wallet_id', 'score']]
SimpleResults(results_df) ==
    [i \in 1..Len(results_df) |->
        [wallet_id |-> results_df[i].wallet_id,
         score     |-> results_df[i].score]]

\* a main that reports success whatever happened
MainReturnsZero(ok) == 0

\* what app.main returns: 0 at the end of the try block, 1 from the check
\* of the input file and from the except branch
MainReturns(ok) == IF ok THEN 0 ELSE 1

\* Wallet identifiers of the input: well-formed ones (the first is shorter
\* than eight characters and seeds a stream with no activity at all, the
\* second seeds one with liquidations), and one whose last eight characters
\* are not hexadecimal.
WalletQuiet == <<"0", "x", "7", "e">>
WalletLiq   == <<"0", "x", "a", "a", "0", "0", "0", "0", "0", "0", "0", "b">>
WalletBusy  == <<"0", "x", "a", "a", "0", "0", "0", "0", "0", "1", "2", "8">>
WalletBad   == <<"0", "x", "a", "a", "0", "0", "0", "0", "g", "0", "0", "1">>

WalletIds == {WalletQuiet, WalletLiq, WalletBusy, WalletBad}

\* states numpy's generator may be in when the process starts (it is seeded
\* from the operating system)
RngStartStates == {0, 40503}

MainInit ==
    /\ pc = "main"
    /\ fileExists \in BOOLEAN
    /\ hasColumn \in BOOLEAN
    /\ wallets \in SeqsUpTo(WalletIds, MaxWallets)
    /\ fileExists = FALSE => hasColumn = FALSE
    /\ hasColumn = FALSE => wallets = <<>>
    /\ rng \in RngStartStates
    /\ clock = 0
    /\ idx = 0
    /\ results = <<>>
    /\ fetched = <<>>
    /\ failed = <<>>
    /\ written = {}
    /\ detailed = <<>>
    /\ simple = <<>>
    /\ exitCode = 0
    /\ escaped = ""
    /\ ScoreIdle
    /\ ExtractIdle
    /\ WorkersIdle

\* app.main, lines 21-24: the input file is missing
MissingFile ==
    /\ pc = "main"
    /\ ~fileExists
    /\ exitCode' = MainReturns(FALSE)
    /\ pc' = "exited"
    /\ UNCHANGED <<fileExists, hasColumn, wallets, idx, results, fetched,
                   failed, rng, clock, written, detailed, simple, escaped>>
    /\ UNCHANGED scoreVars
    /\ UNCHANGED extractVars
    /\ UNCHANGED workerVars

\* process_wallet_list, lines 290-293: the file has no wallet_id column, the
\* KeyError reaches the except branch of app.main
ReadCsvNoColumn ==
    /\ pc = "main"
    /\ fileExists
    /\ ~hasColumn
    /\ escaped' = "read"
    /\ exitCode' = MainReturns(FALSE)
    /\ pc' = "exited"
    /\ UNCHANGED <<fileExists, hasColumn, wallets, idx, results, fetched,
                   failed, rng, clock, written, detailed, simple>>
    /\ UNCHANGED scoreVars
    /\ UNCHANGED extractVars
    /\ UNCHANGED workerVars

\* process_wallet_list, lines 290-293: the loop is entered
ReadCsv ==
    /\ pc = "main"
    /\ fileExists
    /\ hasColumn
    /\ idx' = 1
    /\ pc' = "loop"
    /\ UNCHANGED <<fileExists, hasColumn, wallets, results, fetched, failed,
                   rng, clock, written, detailed, simple, exitCode, escaped>>
    /\ UNCHANGED scoreVars
    /\ UNCHANGED extractVars
    /\ UNCHANGED workerVars

\* process_wallet_list, lines 293-334: one pass of the loop
ProcessWallet ==
    /\ pc = "loop"
    /\ idx <= Len(wallets)
    /\ LET sim == simulate_compound_data(rng, wallets[idx], clock)
       IN  \E nows \in Readings(clock) :
              /\ nows[3] <= MaxClock
              /\ LET done == RestOfBody(wallets[idx], sim, nows)
                 IN  /\ results' = Append(results, done.row)
                     /\ fetched' = [anchor |-> clock, data |-> done.data]
                     /\ failed' = Append(failed, done.raised)
                     /\ rng' = done.rng
              /\ clock' = nows[3]
    /\ idx' = idx + 1
    /\ UNCHANGED <<pc, fileExists, hasColumn, wallets, written,
                   detailed, simple, exitCode, escaped>>
    /\ UNCHANGED scoreVars
    /\ UNCHANGED extractVars
    /\ UNCHANGED workerVars

\* process_wallet_list, line 340: the detailed file cannot be written (the
\* disk or the permissions decide)
SaveFails ==
    /\ pc = "loop"
    /\ idx > Len(wallets)
    /\ escaped' = "write"
    /\ exitCode' = MainReturns(FALSE)
    /\ pc' = "exited"
    /\ UNCHANGED <<fileExists, hasColumn, wallets, idx, results, fetched,
                   failed, rng, clock, written, detailed, simple>>
    /\ UNCHANGED scoreVars
    /\ UNCHANGED extractVars
    /\ UNCHANGED workerVars

\* process_wallet_list, lines 337-343 on an input without rows: the frame
\* built from the empty list has no columns, the detailed file is written
\* empty and selecting the two columns raises KeyError
SaveEmpty ==
    /\ pc = "loop"
    /\ idx > Len(wallets)
    /\ results = <<>>
    /\ written' = {"detailed"}
    /\ detailed' = <<>>
    /\ escaped' = "select"
    /\ exitCode' = MainReturns(FALSE)
    /\ pc' = "exited"
    /\ UNCHANGED <<fileExists, hasColumn, wallets, idx, results, fetched,
                   failed, rng, clock, simple>>
    /\ UNCHANGED scoreVars
    /\ UNCHANGED extractVars
    /\ UNCHANGED workerVars

\* process_wallet_list, lines 337-347, and app.main, lines 34-64: both
\* files are written and the summary is printed
Save ==
    /\ pc = "loop"
    /\ idx > Len(wallets)
    /\ results # <<>>
    /\ written' = {"detailed", "simple"}
    /\ detailed' = results
    /\ simple' = SimpleResults(results)
    /\ exitCode' = MainReturns(TRUE)
    /\ pc' = "exited"
    /\ UNCHANGED <<fileExists, hasColumn, wallets, idx, results, fetched,
                   failed, rng, clock, escaped>>
    /\ UNCHANGED scoreVars
    /\ UNCHANGED extractVars
    /\ UNCHANGED workerVars

Next ==
    \/ MissingFile
    \/ ReadCsvNoColumn
    \/ ReadCsv
    \/ ProcessWallet
    \/ SaveFails
    \/ SaveEmpty
    \/ Save

Init == MainInit

Spec == Init /\ [][Next]_vars

-----------------------------------------------------------------------------
(* SpecWorkers: the simulations of two wallets run as workers of one       *)
(* process, each a call of _simulate_compound_data.  The workers share     *)
(* what the code shares, the process-wide generator np.random; a worker    *)
(* may be suspended between two statements of the function.  Both calls    *)
(* read the same anchor instant.                                           *)

Workers == {"a", "b"}

\* lines 66-88: the transaction count and the transaction loop, entered
\* with the generator in state s; the list built and the state left
SimTransactions(s, current_time) ==
    LET count == RngNext(s)
        num_transactions == Poisson(count, MaxTx)
    IN  [transactions |->
            [i \in 1..num_transactions |->
                Transaction(RngAdvance(count, 68 * (i - 1)), current_time)],
         rng |-> RngAdvance(count, 68 * num_transactions)]

\* lines 91-101: the liquidation draw and the liquidation loop
SimLiquidations(s, current_time) ==
    LET liq      == RngNext(s)
        liqCount == RngNext(liq)
        num_liquidations ==
            IF Below(liq, 15) THEN Poisson(liqCount, MaxLiq - 1) + 1 ELSE 0
    IN  [liquidations |->
            [i \in 1..num_liquidations |->
                Liquidation(RngAdvance(liqCount, 4 * (i - 1)), current_time)],
         rng |-> IF Below(liq, 15)
                 THEN RngAdvance(liqCount, 4 * num_liquidations)
                 ELSE liq]

WorkersInit ==
    /\ workerPc = [w \in Workers |-> "seed"]
    /\ workerWallet \in [Workers -> WalletIds]
    /\ workerData = [w \in Workers |-> <<>>]
    /\ rng \in RngStartStates
    /\ clock = 0
    /\ pc = "idle" /\ fileExists = FALSE /\ hasColumn = FALSE
    /\ wallets = <<>> /\ idx = 0 /\ results = <<>>
    /\ fetched = <<>> /\ failed = <<>> /\ written = {}
    /\ detailed = <<>> /\ simple = <<>> /\ exitCode = 0 /\ escaped = ""
    /\ ScoreIdle
    /\ ExtractIdle

\* what a step of a worker leaves alone
WorkerFrame ==
    /\ UNCHANGED <<pc, fileExists, hasColumn, wallets, idx, results, fetched,
                   failed, clock, written, detailed, simple, exitCode,
                   escaped, workerWallet>>
    /\ UNCHANGED scoreVars
    /\ UNCHANGED extractVars

\* lines 62-63: int(wallet_address[-8:], 16) raises, or np.random.seed
\* overwrites the process-wide state
WorkerSeed(w) ==
    /\ workerPc[w] = "seed"
    /\ LET parsed == ParseHex(LastEight(workerWallet[w]))
       IN  IF parsed.raised
           THEN /\ workerPc' = [workerPc EXCEPT ![w] = "raised"]
                /\ rng' = rng
           ELSE /\ workerPc' = [workerPc EXCEPT ![w] = "transactions"]
                /\ rng' = SeedGlobal(rng, Mod32(parsed.value))
    /\ UNCHANGED workerData
    /\ WorkerFrame

\* lines 66-88
WorkerTransactions(w) ==
    /\ workerPc[w] = "transactions"
    /\ LET built == SimTransactions(rng, clock)
       IN  /\ workerData' = [workerData EXCEPT
                                ![w] = [transactions |-> built.transactions]]
           /\ rng' = built.rng
    /\ workerPc' = [workerPc EXCEPT ![w] = "liquidations"]
    /\ WorkerFrame

\* lines 91-101
WorkerLiquidations(w) ==
    /\ workerPc[w] = "liquidations"
    /\ LET built == SimLiquidations(rng, clock)
       IN  /\ workerData' = [workerData EXCEPT
                                ![w] = [transactions |-> @.transactions,
                                        liquidations |-> built.liquidations]]
           /\ rng' = built.rng
    /\ workerPc' = [workerPc EXCEPT ![w] = "positions"]
    /\ WorkerFrame

\* lines 104-119: the loop over the assets, and the dict returned
WorkerPositions(w) ==
    /\ workerPc[w] = "positions"
    /\ LET held == Positions(rng, 1)
       IN  /\ workerData' = [workerData EXCEPT
                                ![w] = WalletData(workerWallet[w],
                                                  @.transactions,
                                                  @.liquidations,
                                                  held.positions)]
           /\ rng' = held.rng
    /\ workerPc' = [workerPc EXCEPT ![w] = "returned"]
    /\ WorkerFrame

NextWorkers ==
    \E w \in Workers :
        \/ WorkerSeed(w)
        \/ WorkerTransactions(w)
        \/ WorkerLiquidations(w)
        \/ WorkerPositions(w)

SpecWorkers == WorkersInit /\ [][NextWorkers]_vars

-----------------------------------------------------------------------------
(* SpecBody: one pass of the loop of process_wallet_list, statement by     *)
(* statement (fetch, extract, score), for a wallet drawn from every        *)
(* identifier of three hexadecimal digits and one that is not hexadecimal. *)

BodyWalletIds ==
    {<<"0", "x", HexDigits[a], HexDigits[b], HexDigits[c]>> :
        a \in DOMAIN HexDigits, b \in DOMAIN HexDigits, c \in DOMAIN HexDigits}
    \cup {WalletBad}

BodyInit ==
    /\ pc = "fetch"
    /\ wallets \in {<<w>> : w \in BodyWalletIds}
    /\ rng \in RngStartStates
    /\ clock = 0
    /\ wallet_data = <<>>
    /\ extracted = <<>>
    /\ features = <<>>
    /\ score = 0
    /\ explanation = ""
    /\ spc = "idle" /\ epc = "idle"
    /\ fileExists = TRUE /\ hasColumn = TRUE
    /\ idx = 1 /\ results = <<>>
    /\ fetched = <<>> /\ failed = <<>> /\ written = {}
    /\ detailed = <<>> /\ simple = <<>> /\ exitCode = 0 /\ escaped = ""
    /\ WorkersIdle

\* what a statement of the loop body leaves alone
BodyFrame ==
    /\ UNCHANGED <<fileExists, hasColumn, wallets, idx, results, fetched,
                   failed, written, detailed, simple, exitCode, escaped,
                   spc, epc, explanation>>
    /\ UNCHANGED workerVars

\* line 297: wallet_data = self.fetch_wallet_transactions(wallet)
BodyFetch ==
    /\ pc = "fetch"
    /\ LET sim == simulate_compound_data(rng, wallets[idx], clock)
       IN  /\ wallet_data' = sim.data
           /\ rng' = sim.rng
           /\ pc' = IF sim.raised THEN "failed" ELSE "extract"
    /\ UNCHANGED <<clock, extracted, features, score>>
    /\ BodyFrame

\* line 300: features = self.extract_features(wallet_data)
BodyExtract ==
    /\ pc = "extract"
    /\ \E nows \in Readings(clock) :
          LET ext == extract_features(wallet_data, nows)
          IN  /\ extracted' = ext
              /\ features' = IF ext.raised THEN features ELSE ext.features
              /\ pc' = IF ext.raised THEN "failed" ELSE "score"
              /\ clock' = nows[3]
    /\ UNCHANGED <<rng, wallet_data, score>>
    /\ BodyFrame

\* line 303: score = self.calculate_risk_score(features)
BodyScore ==
    /\ pc = "score"
    /\ score' = calculate_risk_score(features)
    /\ pc' = "scored"
    /\ UNCHANGED <<rng, clock, wallet_data, extracted, features>>
    /\ BodyFrame

NextBody == BodyFetch \/ BodyExtract \/ BodyScore

SpecBody == BodyInit /\ [][NextBody]_vars

(*CLAIMS*)
-----------------------------------------------------------------------------
(* Properties of the scorer and the explanation generator (SpecScore).     *)

Scored == spc \in {"scored", "explained"}

\* C1: for every feature set with a non-negative liquidation_count,
\* calculate_risk_score returns an integer s with 0 <= s <= 1000.
C1_ScoreInBounds ==
    Scored => (score \in Int /\ 0 <= score /\ score <= 1000)

\* the lower clamp is what keeps the score in range
C1_Witness ==
    /\ spc = "scored"
    /\ UnclampedScore(features) < 0
    /\ score = 0

ZeroActivity(f) ==
    /\ f.liquidation_count = 0
    /\ f.account_age_days = 0
    /\ f.days_since_last_activity = 999
    /\ f.activity_frequency = Frac(0, 1)
    /\ f.repayment_ratio = Frac(0, 1)
    /\ f.current_utilization = Frac(0, 1)
    /\ f.asset_diversity = 0
    /\ f.volatile_asset_ratio = Frac(0, 1)
    /\ f.days_since_last_liquidation = 999

\* C6 as stated: the zero-activity feature set scores 305 and is explained
\* as exactly "Inactive user".
C6_Original ==
    (spc = "explained" /\ ZeroActivity(features))
        => (score = 305 /\ explanation = "Inactive user")

\* C6, amended: the zero-activity feature set scores 225 (the repayment
\* ratio 0 is below 0.5, so the repayment penalty of 100 applies as well) and
\* is explained as "Poor repayment history; Inactive user".
C6_ZeroActivityScore ==
    (spc = "explained" /\ ZeroActivity(features))
        => (/\ score = 225
            /\ explanation = "Poor repayment history; Inactive user")

C6_Witness == spc = "explained" /\ ZeroActivity(features)

WithLiquidations(f, k) == [f EXCEPT !.liquidation_count = k]

\* C7: for two feature sets that differ only in liquidation_count, the one
\* with the larger count never has the larger score.
C7_LiquidationMonotone ==
    spc = "scored" =>
        \A k \in 0..MaxLiqCount :
            /\ k >= features.liquidation_count
                => calculate_risk_score(WithLiquidations(features, k)) <= score
            /\ k <= features.liquidation_count
                => calculate_risk_score(WithLiquidations(features, k)) >= score

\* one more liquidation strictly lowers a score that is not yet clamped
C7_Witness ==
    /\ spc = "scored"
    /\ features.liquidation_count = 0
    /\ calculate_risk_score(WithLiquidations(features, 1)) < score
    /\ calculate_risk_score(WithLiquidations(features, MaxLiqCount)) = 0

\* The nine rule adjustments of spec section 4.3, each on its own.
Rule1(f) == 0 - f.liquidation_count * 200
Rule2(f) == IF f.days_since_last_liquidation < 30 THEN 0 - 100
            ELSE IF f.days_since_last_liquidation < 90 THEN 0 - 50 ELSE 0
Rule3(f) == IF Gt(f.repayment_ratio, 9, 10) THEN 100
            ELSE IF Lt(f.repayment_ratio, 5, 10) THEN 0 - 100 ELSE 0
Rule4(f) == IF Gt(f.current_utilization, 8, 10) THEN 0 - 150
            ELSE IF Gt(f.current_utilization, 6, 10) THEN 0 - 75 ELSE 0
Rule5(f) == IF Gt(f.activity_frequency, 2, 1) THEN 50
            ELSE IF Lt(f.activity_frequency, 5, 10) THEN 0 - 50 ELSE 0
Rule6(f) == IF f.asset_diversity >= 3 THEN 75
            ELSE IF f.asset_diversity = 1 THEN 0 - 25 ELSE 0
Rule7(f) == IF Gt(f.volatile_asset_ratio, 7, 10) THEN 0 - 100 ELSE 0
Rule8(f) == IF f.account_age_days > 365 THEN 50
            ELSE IF f.account_age_days < 30 THEN 0 - 50 ELSE 0
Rule9(f) == IF f.days_since_last_activity < 7 THEN 25
            ELSE IF f.days_since_last_activity > 90 THEN 0 - 75 ELSE 0

RuleSum(f) ==
    Rule1(f) + Rule2(f) + Rule3(f) + Rule4(f) + Rule5(f)
        + Rule6(f) + Rule7(f) + Rule8(f) + Rule9(f)

\* every feature other than the two liquidation ones triggers no adjustment
OthersNeutral(f) ==
    /\ Rule3(f) = 0 /\ Rule4(f) = 0 /\ Rule5(f) = 0 /\ Rule6(f) = 0
    /\ Rule7(f) = 0 /\ Rule8(f) = 0 /\ Rule9(f) = 0

\* C9: the score is max(0, min(1000, 500 + the sum of the nine adjustments)),
\* clamped once at the end; two liquidations, the last one 10 days ago, and
\* nothing else adjusting give exactly 0, the unclamped total being 0 too.
C9_ClampedSumOnce ==
    spc = "scored" =>
        /\ score = Max(0, Min(1000, 500 + RuleSum(features)))
        /\ (/\ features.liquidation_count = 2
            /\ features.days_since_last_liquidation = 10
            /\ OthersNeutral(features))
                => (score = 0 /\ UnclampedScore(features) = 0)

\* a running total that is negative after the liquidation blocks and is
\* brought back above 0 by the later bonuses
C9_Witness ==
    /\ spc = "scored"
    /\ RecentLiquidationBlock(LiquidationBlock(500, features), features) < 0
    /\ score > 0

\* the worked case of C9 is among the inputs
C9_CaseReached ==
    /\ spc = "scored"
    /\ features.liquidation_count = 2
    /\ features.days_since_last_liquidation = 10
    /\ OthersNeutral(features)

\* The clauses that correspond to the adjustments the scorer applied.
AppliedClauses(f) ==
    (IF LiquidationBlock(0, f) # 0
     THEN <<"Liquidated " \o ToString(f.liquidation_count) \o " time(s)">>
     ELSE <<>>)
    \o (IF RepaymentBlock(0, f) = risk_weights.repayment_bonus
        THEN <<"Excellent repayment history">>
        ELSE IF RepaymentBlock(0, f) = 0 - risk_weights.repayment_bonus
        THEN <<"Poor repayment history">>
        ELSE <<>>)
    \o (IF UtilizationBlock(0, f) = 0 - 150
        THEN <<"High current utilization">>
        ELSE <<>>)
    \o (IF FrequencyBlock(0, f) = risk_weights.frequency_bonus
        THEN <<"Active user">>
        ELSE IF FrequencyBlock(0, f) = 0 - 50
        THEN <<"Inactive user">>
        ELSE <<>>)
    \o (IF DiversificationBlock(0, f) = risk_weights.diversification_bonus
        THEN <<"Well-diversified portfolio">>
        ELSE <<>>)

\* C10: the explanation holds a clause exactly when the scorer applied the
\* matching adjustment, the clauses are joined with "; " in the scorer's
\* order, and it is "Standard risk profile" exactly when no clause fired.
C10_ExplanationParity ==
    spc = "explained" =>
        /\ explanation =
              (IF AppliedClauses(features) = <<>>
               THEN "Standard risk profile"
               ELSE Join("; ", AppliedClauses(features)))
        /\ (explanation = "Standard risk profile")
              <=> (AppliedClauses(features) = <<>>)

\* all five clauses fire together
C10_Witness ==
    /\ spc = "explained"
    /\ Len(AppliedClauses(features)) = 5
    /\ explanation = "Liquidated 1 time(s); Excellent repayment history; "
                     \o "High current utilization; Active user; "
                     \o "Well-diversified portfolio"

-----------------------------------------------------------------------------
(* Properties of the feature extractor (SpecExtract).                      *)

NoActivity(wd) ==
    /\ wd.transactions = <<>>
    /\ wd.liquidations = <<>>
    /\ DOMAIN wd.current_positions = {}

\* C8: extract_features never divides by zero and never fails: every
\* denominator is at least 1, and the record with no transactions, no
\* liquidations and no positions gives the documented zero features.
C8_ExtractTotal ==
    epc = "extracted" =>
        /\ ~extracted.raised
        /\ \A r \in Ratios(extracted.features) : r.den >= 1
        /\ extracted.features.repayment_ratio.den >= Unit
        /\ extracted.features.current_utilization.den >= Unit
        /\ NoActivity(wallet_data) =>
              /\ extracted.features.total_transactions = 0
              /\ extracted.features.liquidation_count = 0
              /\ extracted.features.account_age_days = 0
              /\ extracted.features.days_since_last_activity = 999
              /\ extracted.features.activity_frequency.num = 0
              /\ extracted.features.repayment_ratio.num = 0
              /\ extracted.features.current_utilization.num = 0
              /\ extracted.features.asset_diversity = 0
              /\ extracted.features.days_since_last_liquidation = 999

\* the record on which every unfloored denominator would be zero
C8_Witness ==
    /\ epc = "extracted"
    /\ NoActivity(wallet_data)
    /\ ~extracted.raised

-----------------------------------------------------------------------------
(* Properties of process_wallet_list and app.main (Spec).                  *)

\* the wallets processed so far
Processed == 1..Len(results)

\* the loop has gone through the whole list
LoopDone == pc \in {"loop", "exited"} /\ hasColumn /\ idx > Len(wallets)

RemoveAt(xs, k) == SubSeq(xs, 1, k - 1) \o SubSeq(xs, k + 1, Len(xs))

RECURSIVE RowsFrom(_, _)
\* the rows of a run of the loop over ws in a process whose generator
\* starts in state s
RowsFrom(s, ws) ==
    IF ws = <<>> THEN <<>>
    ELSE LET done == ProcessOne(s, Head(ws), 0, <<0, 0, 0>>)
         IN  <<done.row>> \o RowsFrom(done.rng, Tail(ws))

\* what a process that starts in generator state s and handles the wallet w
\* first produces: the record anchored at instant t, and the row for each
\* sequence of later clock readings
AloneRecords ==
    [w \in WalletIds |-> [s \in RngStartStates |-> [t \in 0..MaxClock |->
        simulate_compound_data(s, w, t).data]]]

AloneRows ==
    [w \in WalletIds |-> [s \in RngStartStates |-> [nows \in Readings(0) |->
        ProcessOne(s, w, 0, nows).row]]]

\* C2: a wallet whose processing raises gets exactly the neutral row, the
\* loop goes on to the next wallet, and the rows of the other wallets are
\* what they are in a run over the list without the failing wallet.
C2_NeutralFallback ==
    /\ pc = "loop" => (Len(results) = idx - 1 /\ Len(failed) = idx - 1)
    /\ LoopDone => Len(results) = Len(wallets)
    /\ \A k \in Processed :
          (failed[k] \/ ParseHex(LastEight(wallets[k])).raised) =>
              /\ failed[k]
              /\ results[k] =
                    [wallet_id           |-> wallets[k],
                     score               |-> 500,
                     explanation         |-> "Error in processing",
                     liquidation_count   |-> 0,
                     repayment_ratio     |-> 0,
                     current_utilization |-> 0,
                     activity_frequency  |-> 0,
                     asset_diversity     |-> 0]
              /\ (pc = "loop" /\ idx > Len(wallets)) =>
                    \A s \in RngStartStates :
                        RemoveAt(results, k) = RowsFrom(s, RemoveAt(wallets, k))

\* a failing wallet between two wallets that went through
C2_Witness ==
    /\ pc = "loop"
    /\ Len(results) = 3
    /\ failed = <<FALSE, TRUE, FALSE>>
    /\ results[1].score # 500
    /\ results[3].score # 500
    /\ results[1] # results[3]

\* C3: when process_wallet_list completes, both tables have one row per
\* input row, the i-th row carries the i-th input wallet_id, and the simple
\* table is the detailed one projected onto wallet_id and score.
C3_OneRowPerWallet ==
    written = {"detailed", "simple"} =>
        /\ Len(detailed) = Len(wallets)
        /\ Len(simple) = Len(wallets)
        /\ \A i \in 1..Len(wallets) :
              /\ detailed[i].wallet_id = wallets[i]
              /\ simple[i].wallet_id = wallets[i]
              /\ simple[i] = [wallet_id |-> detailed[i].wallet_id,
                              score     |-> detailed[i].score]

\* both tables written for a list with a repeated wallet, a fallback row
\* and a row that went through
C3_Witness ==
    /\ written = {"detailed", "simple"}
    /\ Len(wallets) = 3
    /\ wallets[1] = wallets[3]
    /\ failed = <<FALSE, TRUE, FALSE>>

\* C4: with the anchor instant held fixed the activity record of a wallet
\* is a function of its identifier alone, and so is its row: neither
\* depends on the state the earlier wallets left the generator in, on the
\* position in the list or on the start of the process.
C4_Deterministic ==
    /\ \A k \in Processed : \A s \in RngStartStates :
          \A nows \in Readings(0) :
              results[k] = AloneRows[wallets[k]][s][nows]
    /\ (results # <<>> /\ ~failed[Len(failed)]) =>
          \A s \in RngStartStates :
              fetched.data =
                  AloneRecords[wallets[Len(results)]][s][fetched.anchor]
    /\ \A j \in Processed : \A k \in Processed :
          wallets[j] = wallets[k] => results[j] = results[k]

\* the same wallet first and third, after a different wallet that drew
\* from the generator, at a later instant
C4_Witness ==
    /\ Len(results) = 3
    /\ wallets[1] = wallets[3]
    /\ wallets[2] # wallets[1]
    /\ failed = <<FALSE, FALSE, FALSE>>
    /\ fetched.data.transactions # <<>>
    /\ results[2].activity_frequency > 0
    /\ fetched.anchor > 0

\* C5: app.main returns 1 without processing a wallet when the input file
\* is missing, 1 when an exception leaves process_wallet_list, and 0 when
\* the file exists with a wallet_id column and the outputs are written,
\* however many wallets fell back to the neutral row.
C5_ExitCodes ==
    pc = "exited" =>
        /\ exitCode \in {0, 1}
        /\ ~fileExists =>
              (exitCode = 1 /\ results = <<>> /\ failed = <<>> /\ idx = 0)
        /\ escaped # "" => exitCode = 1
        /\ (fileExists /\ hasColumn /\ written = {"detailed", "simple"})
              => exitCode = 0
        /\ exitCode = 0 => (escaped = "" /\ written = {"detailed", "simple"})

\* a run that returns 0 although every wallet fell back
C5_Witness ==
    /\ pc = "exited"
    /\ exitCode = 0
    /\ failed = <<TRUE, TRUE>>

-----------------------------------------------------------------------------
(* Properties of simulations run as workers (SpecWorkers).                 *)

\* the workers whose call has returned
Returned == {w \in Workers : workerPc[w] = "returned"}

\* a worker that ran from its first statement to its return while no other
\* worker had started builds the record of the call made alone
WorkerAloneAgrees ==
    \A w \in Returned :
        (\A v \in Workers \ {w} : workerPc[v] = "seed") =>
            \A s \in RngStartStates :
                workerData[w] = AloneRecords[workerWallet[w]][s][0]

\* C11: the simulation of a wallet draws from a generator of its own, never
\* from a process-wide one, so nothing a worker draws depends on another
\* worker: a worker whose call returned has built the activity record of
\* the same call made alone, however the workers were interleaved.
C11_Original ==
    \A w \in Returned : \A s \in RngStartStates :
        workerData[w] = AloneRecords[workerWallet[w]][s][0]

-----------------------------------------------------------------------------
(* Properties of one pass of the loop body (SpecBody).                     *)

\* the pass got through the simulation and the extraction without error
Extracted == pc \in {"score", "scored"}

\* C12: for a wallet that runs through simulation, extraction and scoring
\* without error, account_age_days is at most 179, so the rule that adds 50
\* for account_age_days > 365 does not apply, and the score is at most 750.
C12_AgeAndScoreCap ==
    /\ Extracted =>
          /\ features.account_age_days <= 179
          /\ ~(features.account_age_days > 365)
          /\ AccountAgeBlock(0, features) <= 0
    /\ pc = "scored" => score <= 750

\* a wallet whose first transaction lies 179 days before the anchor, scored
\* after the clock has moved on
C12_Witness ==
    /\ pc = "scored"
    /\ features.account_age_days = 179
    /\ clock > 0
    /\ Len(wallet_data.transactions) > 1

=============================================================================
